---- MODULE Spec2Model ----
(***************************************************************************)
(* Model of the BM1370 driver (src/src/bm1370.py) and of the serial glue   *)
(* that wires it to a port (src/src/bitaxerawpy.py).                        *)
(*                                                                         *)
(* One behaviour is one call of a public method of BM1370 by a client:     *)
(*   Spec      a call of send_init, one step per transport interaction     *)
(*             (every serial_tx_func / serial_rx_func call is a step);     *)
(*   SpecSend  a call of send with a header byte and a payload;            *)
(*   SpecFreq  a call of send_hash_frequency with a target frequency.      *)
(*   SpecDiff  a call of get_difficulty_mask with a difficulty.            *)
(* Bytes are integers 0..255, a frame is a sequence of bytes.              *)
(***************************************************************************)
EXTENDS Integers, Sequences, FiniteSets, TLC

VARIABLES
    call,          \* the method called and its arguments
    pc,            \* position of the call in the code
    ser_open,      \* ctrl_serial._ser is a port (TRUE) or None (FALSE)
    sent,          \* frames written to the port so far, oldest first
    pending,       \* chip responses the chain has still to deliver
    noise,         \* other answers the port may still deliver
    timeouts,      \* zero-byte reads the port may still deliver
    last_rx,       \* what the last serial_rx_func call returned
    rx_log,        \* every value serial_rx_func returned, oldest first
    chip_counter,  \* count_asic_chips / send_init: chip_counter
    i,             \* loop index of the running for loop
    k,             \* position inside the body of the per-chip loop
    result,        \* value returned by the call (NoResult while none)
    error          \* message of the exception that ended the call, or ""

vars == <<call, pc, ser_open, sent, pending, noise, timeouts, last_rx, rx_log,
          chip_counter, i, k, result, error>>

(***************************************************************************)
(* Bounds of the model.                                                    *)
(***************************************************************************)
MaxChain == 3        \* small chains have 0..MaxChain chips
BigChain == 257      \* one chain longer than the 256 addresses of a byte
MaxNoise == 1        \* answers of another origin during an enumeration
MaxTimeouts == 1     \* zero-byte reads during an enumeration
MaxShortLen == 2     \* short payloads of send are enumerated up to this length
MaxFreq == 700       \* target frequencies of send_hash_frequency, in MHz
MaxDifficulty == 300 \* difficulties of get_difficulty_mask are enumerated up to this

(***************************************************************************)
(* Program constants (bm1370.py:10-25).                                    *)
(***************************************************************************)
TYPE_JOB == 32
TYPE_CMD == 64
GROUP_SINGLE == 0
GROUP_ALL == 16
CMD_SETADDRESS == 0
CMD_WRITE == 1
CMD_READ == 2
CMD_INACTIVE == 3

NoResult == -1

(***************************************************************************)
(* Byte arithmetic.                                                        *)
(***************************************************************************)
Pow2(n) == 2 ^ n

Bit(x, n) == (x \div Pow2(n)) % 2

FlipBit(x, n) == IF Bit(x, n) = 1 THEN x - Pow2(n) ELSE x + Pow2(n)

IsByte(b) == b \in 0..255

(***************************************************************************)
(* Checksum primitives (crc_functions.py is not part of the sources): the  *)
(* 5-bit CRC with polynomial x^5+x^2+1 and initial value 0x1F, and         *)
(* CRC-16/CCITT-FALSE (polynomial 0x1021, initial value 0xFFFF), both fed  *)
(* most significant bit first.                                             *)
(***************************************************************************)
crc5_bit(crc, din) ==
    LET shifted == (crc * 2) % 32
    IN  IF Bit(crc, 4) # din THEN FlipBit(FlipBit(shifted, 2), 0) ELSE shifted

RECURSIVE crc5_byte(_, _, _)
crc5_byte(crc, byte, n) ==
    IF n = 0 THEN crc
    ELSE LET next == crc5_bit(crc, Bit(byte, n - 1))
         IN  IF next >= 0 THEN crc5_byte(next, byte, n - 1) ELSE next

\* the effect of every byte on every value of the register, computed once
crc5_table == [crc \in 0..31 |-> [byte \in 0..255 |-> crc5_byte(crc, byte, 8)]]

\* the bytes data[lo..hi] fed in order; the range is halved and every
\* intermediate value is tested before it is passed on, which keeps the
\* evaluation shallow
RECURSIVE crc5_from(_, _, _, _)
crc5_from(crc, data, lo, hi) ==
    IF lo > hi THEN crc
    ELSE IF lo = hi THEN crc5_table[crc][data[lo]]
    ELSE LET mid == (lo + hi) \div 2
             left == crc5_from(crc, data, lo, mid)
         IN  IF left >= 0 THEN crc5_from(left, data, mid + 1, hi) ELSE left

crc5(data) == crc5_from(31, data, 1, Len(data))

crc16_bit(crc, din) ==
    LET shifted == (crc * 2) % 65536
    IN  IF Bit(crc, 15) # din
        THEN FlipBit(FlipBit(FlipBit(shifted, 12), 5), 0)
        ELSE shifted

RECURSIVE crc16_byte(_, _, _)
crc16_byte(crc, byte, n) ==
    IF n = 0 THEN crc
    ELSE LET next == crc16_bit(crc, Bit(byte, n - 1))
         IN  IF next >= 0 THEN crc16_byte(next, byte, n - 1) ELSE next

RECURSIVE crc16_from(_, _, _, _)
crc16_from(crc, data, lo, hi) ==
    IF lo > hi THEN crc
    ELSE IF lo = hi THEN crc16_byte(crc, data[lo], 8)
    ELSE LET mid == (lo + hi) \div 2
             left == crc16_from(crc, data, lo, mid)
         IN  IF left >= 0 THEN crc16_from(left, data, mid + 1, hi) ELSE left

crc16_false(data) == crc16_from(65535, data, 1, Len(data))

(***************************************************************************)
(* BM1370.send (bm1370.py:36-55).  The result is what the method has done  *)
(* when it reaches serial_tx_func: err is the exception raised while the   *)
(* buffer was filled ("" when none), buf the buffer handed to the port.    *)
(* Storing a value outside 0..255 in a bytearray raises ValueError.        *)
(***************************************************************************)
\* bm1370.py:37
packet_type(header) == IF Bit(header, 5) = 1 THEN TYPE_JOB ELSE TYPE_CMD

\* bm1370.py:39
total_length(header, data_len) ==
    IF packet_type(header) = TYPE_JOB THEN data_len + 6 ELSE data_len + 5

\* variant of length_field: the Job class is forgotten
length_field_cmd_only(header, data_len) == data_len + 3

\* the value stored in buf[3] (bm1370.py:45)
length_field(header, data_len) ==
    IF packet_type(header) = TYPE_JOB THEN data_len + 4 ELSE data_len + 3

\* variant of checksum_range: the sync bytes are covered too
checksum_range_with_sync(buf, data_len) == SubSeq(buf, 1, 4 + data_len)

\* the slice buf[2:4+data_len] the checksums are computed over
\* (bm1370.py:49, 53)
checksum_range(buf, data_len) == SubSeq(buf, 3, 4 + data_len)

\* the checksum bytes stored behind the payload (bm1370.py:48-53)
checksum(header, covered) ==
    IF packet_type(header) = TYPE_JOB
    THEN LET crc16_total == crc16_false(covered)
         IN  <<(crc16_total \div 256) % 256, crc16_total % 256>>
    ELSE <<crc5(covered)>>

send(header, data) ==
    LET data_len == Len(data)
        length == length_field(header, data_len)
        buf == [n \in 1..total_length(header, data_len) |->
                   CASE n = 1 -> 85
                     [] n = 2 -> 170
                     [] n = 3 -> header
                     [] n = 4 -> length
                     [] n \in 5..(4 + data_len) -> data[n - 4]
                     [] OTHER -> 0]
        crc == checksum(header, checksum_range(buf, data_len))
    IN  IF ~IsByte(header) \/ ~IsByte(length)
           \/ \E n \in 1..data_len : ~IsByte(data[n])
        THEN [err |-> "ValueError", buf |-> <<>>]
        ELSE [err |-> "",
              buf |-> [n \in 1..Len(buf) |->
                          IF n > 4 + data_len THEN crc[n - 4 - data_len]
                                              ELSE buf[n]] \o <<>>]

\* BM1370.send_simple (bm1370.py:57-58): the bytes go out as they are.
send_simple(data) ==
    IF \E n \in 1..Len(data) : ~IsByte(data[n])
    THEN [err |-> "ValueError", buf |-> <<>>]
    ELSE [err |-> "", buf |-> data]

(***************************************************************************)
(* serial_tx_func (bitaxerawpy.py:58-61) applied to the outcome of a send: *)
(* a failed send raises before the port is touched, a closed port raises   *)
(* RuntimeError, otherwise the frame is written and the call goes on at    *)
(* next.                                                                   *)
(***************************************************************************)
\* variant of serial_tx_func: the port is written to without the test of _ser
serial_tx_func_unchecked(tx, next) ==
    IF tx.err # ""
    THEN /\ pc' = "raised"
         /\ error' = tx.err
         /\ UNCHANGED sent
    ELSE /\ sent' = Append(sent, tx.buf)
         /\ pc' = next
         /\ UNCHANGED error

serial_tx_func(tx, next) ==
    IF tx.err # ""
    THEN /\ pc' = "raised"
         /\ error' = tx.err
         /\ UNCHANGED sent
    ELSE IF ~ser_open
    THEN /\ pc' = "raised"
         /\ error' = "Serial port not open"
         /\ UNCHANGED sent
    ELSE /\ sent' = Append(sent, tx.buf)
         /\ pc' = next
         /\ UNCHANGED error

\* BM1370.send_chain_inactive (bm1370.py:60-61)
send_chain_inactive == send(TYPE_CMD + GROUP_ALL + CMD_INACTIVE, <<0, 0>>)

\* BM1370.set_chip_address (bm1370.py:63-64)
set_chip_address(chipAddr) ==
    send(TYPE_CMD + GROUP_SINGLE + CMD_SETADDRESS, <<chipAddr, 0>>)

\* BM1370.set_version_mask (bm1370.py:66-71).  The 32-bit mask is given by its
\* two 16-bit halves, version_mask = mask_hi * 65536 + mask_lo, so that
\* version_mask >> 13 is mask_hi * 8 + (mask_lo >> 13).
set_version_mask(mask_hi, mask_lo) ==
    LET versions_to_roll == mask_hi * 8 + (mask_lo \div 8192)
        version_byte0 == (versions_to_roll \div 256) % 256
        version_byte1 == versions_to_roll % 256
    IN  send(TYPE_CMD + GROUP_ALL + CMD_WRITE,
             <<0, 164, 144, 0, version_byte0, version_byte1>>)

(***************************************************************************)
(* The PLL search of BM1370.send_hash_frequency (bm1370.py:73-110).        *)
(* Target frequencies are whole MHz.  The floats of the code are modelled  *)
(* by exact fractions: freq_diff is the pair num / den, and round() is     *)
(* Python's round-half-to-even.                                            *)
(***************************************************************************)
Abs(x) == IF x < 0 THEN -x ELSE x

\* round(n / d) for d > 0
round(n, d) ==
    LET q == n \div d
        r == n % d
    IN  IF 2 * r < d THEN q
        ELSE IF 2 * r > d THEN q + 1
        ELSE IF q % 2 = 0 THEN q ELSE q + 1

\* the locals of send_hash_frequency before the loops (bm1370.py:75-81);
\* min_difference = min_num / min_den
pll_start ==
    [fb_divider |-> 0, post_divider1 |-> 0, post_divider2 |-> 0,
     ref_divider |-> 0, min_num |-> 10, min_den |-> 1]

\* temp_fb_divider of one divider combination (bm1370.py:87)
temp_fb_divider(target_freq, refdiv, postdiv1, postdiv2) ==
    round(postdiv1 * postdiv2 * target_freq * refdiv, 25)

\* variant of pll_body: the cap max_diff is not tested
pll_body_no_cap(target_freq, best, refdiv, postdiv1, postdiv2) ==
    LET fb == round(postdiv1 * postdiv2 * target_freq * refdiv, 25)
        den == refdiv * postdiv2 * postdiv1
        num == Abs(target_freq * den - 25 * fb)
    IN  IF /\ postdiv1 >= postdiv2
           /\ 160 <= fb /\ fb <= 239
           /\ num * best.min_den < best.min_num * den
        THEN [fb_divider |-> fb, post_divider1 |-> postdiv1,
              post_divider2 |-> postdiv2, ref_divider |-> refdiv,
              min_num |-> num, min_den |-> den]
        ELSE best

\* variant of pll_body: an equal deviation replaces the one kept
pll_body_last_wins(target_freq, best, refdiv, postdiv1, postdiv2) ==
    LET fb == round(postdiv1 * postdiv2 * target_freq * refdiv, 25)
        den == refdiv * postdiv2 * postdiv1
        num == Abs(target_freq * den - 25 * fb)
    IN  IF /\ postdiv1 >= postdiv2
           /\ 160 <= fb /\ fb <= 239
           /\ num * best.min_den <= best.min_num * den
           /\ num < den
        THEN [fb_divider |-> fb, post_divider1 |-> postdiv1,
              post_divider2 |-> postdiv2, ref_divider |-> refdiv,
              min_num |-> num, min_den |-> den]
        ELSE best

\* the body of the innermost loop (bm1370.py:86-97); max_diff is 1.0
pll_body(target_freq, best, refdiv, postdiv1, postdiv2) ==
    LET fb == temp_fb_divider(target_freq, refdiv, postdiv1, postdiv2)
        den == refdiv * postdiv2 * postdiv1
        num == Abs(target_freq * den - 25 * fb)
    IN  IF /\ postdiv1 >= postdiv2
           /\ 160 <= fb /\ fb <= 239
           /\ num * best.min_den < best.min_num * den
           /\ num < den
        THEN [fb_divider |-> fb, post_divider1 |-> postdiv1,
              post_divider2 |-> postdiv2, ref_divider |-> refdiv,
              min_num |-> num, min_den |-> den]
        ELSE best

\* for postdiv2 in range(7, 0, -1) (bm1370.py:85), from postdiv2 down
RECURSIVE pll_postdiv2_loop(_, _, _, _, _)
pll_postdiv2_loop(target_freq, best, refdiv, postdiv1, postdiv2) ==
    IF postdiv2 = 0 THEN best
    ELSE LET next == pll_body(target_freq, best, refdiv, postdiv1, postdiv2)
         IN  IF next.fb_divider >= 0
             THEN pll_postdiv2_loop(target_freq, next, refdiv, postdiv1,
                                    postdiv2 - 1)
             ELSE next

\* for postdiv1 in range(7, 0, -1) (bm1370.py:84), from postdiv1 down
RECURSIVE pll_postdiv1_loop(_, _, _, _)
pll_postdiv1_loop(target_freq, best, refdiv, postdiv1) ==
    IF postdiv1 = 0 THEN best
    ELSE LET next == pll_postdiv2_loop(target_freq, best, refdiv, postdiv1, 7)
         IN  IF next.fb_divider >= 0
             THEN pll_postdiv1_loop(target_freq, next, refdiv, postdiv1 - 1)
             ELSE next

\* for refdiv in range(2, 0, -1) (bm1370.py:83), from refdiv down
RECURSIVE pll_refdiv_loop(_, _, _)
pll_refdiv_loop(target_freq, best, refdiv) ==
    IF refdiv = 0 THEN best
    ELSE LET next == pll_postdiv1_loop(target_freq, best, refdiv, 7)
         IN  IF next.fb_divider >= 0
             THEN pll_refdiv_loop(target_freq, next, refdiv - 1)
             ELSE next

pll_search(target_freq) == pll_refdiv_loop(target_freq, pll_start, 2)

\* variant of freqbuf: byte 2 of the template is left as it is
freqbuf_low_vco(best) ==
    <<0, 8, 64,
      best.fb_divider,
      best.ref_divider,
      ((best.post_divider1 - 1) % 16) * 16 + ((best.post_divider2 - 1) % 16)>>

\* the payload written when the search succeeded (bm1370.py:74, 103-107)
freqbuf(best) ==
    <<0, 8,
      IF best.fb_divider * 25 >= 2400 * best.ref_divider THEN 80 ELSE 64,
      best.fb_divider,
      best.ref_divider,
      ((best.post_divider1 - 1) % 16) * 16 + ((best.post_divider2 - 1) % 16)>>

\* BM1370.send_hash_frequency: found is FALSE when the method logs the
\* failure and returns without sending (bm1370.py:99-101), otherwise tx is
\* the outcome of its send (bm1370.py:109)
send_hash_frequency(target_freq) ==
    LET best == pll_search(target_freq)
    IN  IF best.fb_divider = 0
        THEN [found |-> FALSE, tx |-> [err |-> "", buf |-> <<>>]]
        ELSE [found |-> TRUE,
              tx |-> send(TYPE_CMD + GROUP_ALL + CMD_WRITE, freqbuf(best))]

(***************************************************************************)
(* BM1370.get_difficulty_mask and its helpers (bm1370.py:170-186).         *)
(***************************************************************************)
RECURSIVE largest_power_of_two_from(_, _)
largest_power_of_two_from(p, n) ==
    IF p * 2 <= n THEN largest_power_of_two_from(p * 2, n) ELSE p

_largest_power_of_two(n) == largest_power_of_two_from(1, n)

\* the 8 binary digits of a byte read backwards
_reverse_bits(byte) ==
    Bit(byte, 0) * 128 + Bit(byte, 1) * 64 + Bit(byte, 2) * 32
    + Bit(byte, 3) * 16 + Bit(byte, 4) * 8 + Bit(byte, 5) * 4
    + Bit(byte, 6) * 2 + Bit(byte, 7)

\* variant of get_difficulty_mask: the bytes are stored at ascending offsets
get_difficulty_mask_ascending(difficulty) ==
    LET d == _largest_power_of_two(difficulty) - 1
        value(n) == (d \div Pow2(8 * n)) % 256
    IN  <<0, 20, _reverse_bits(value(0)), _reverse_bits(value(1)),
          _reverse_bits(value(2)), _reverse_bits(value(3))>>

\* the template [0x00, 0x14, 0x00, 0x00, 0x00, 0xFF] with mask[5 - i] set for
\* i = 0..3 (bm1370.py:171-177)
get_difficulty_mask(difficulty) ==
    LET d == _largest_power_of_two(difficulty) - 1
        value(n) == (d \div Pow2(8 * n)) % 256
    IN  <<0, 20, _reverse_bits(value(3)), _reverse_bits(value(2)),
          _reverse_bits(value(1)), _reverse_bits(value(0))>>

(***************************************************************************)
(* The port as count_asic_chips sees it.  A value returned by               *)
(* serial_rx_func is a record: none says that it is None, bytes holds the   *)
(* bytes otherwise.  The serial port returns the bytes read, none at all    *)
(* after a timeout (bitaxerawpy.py:63-67); a callback handed to ll_init     *)
(* may also return None.                                                    *)
(***************************************************************************)
RxNone == [none |-> TRUE, bytes |-> <<>>]

RxBytes(b) == [none |-> FALSE, bytes |-> b]

\* the 11 bytes a BM1370 answers to the broadcast read
ChipIdResponse == <<170, 85, 19, 112, 0, 0, 0, 0, 0, 0, 6>>

\* answers of another origin: a chip of another model, and bytes whose hex
\* digits hold the signature half a byte later
NoiseResponses == {<<170, 85, 19, 102, 0, 0, 0, 0, 0, 0, 14>>,
                   <<10, 165, 81, 55, 0, 0, 0, 0, 0, 0, 0>>}

\* BM1370.__init__ (bm1370.py:29): "aa5513700000" as hex digits
chip_id_response == <<10, 10, 5, 5, 1, 3, 7, 0, 0, 0, 0, 0>>

\* binascii.hexlify(data).decode('utf8'): two hex digits per byte
hexlify(data) ==
    [n \in 1..(2 * Len(data)) |->
        IF n % 2 = 1 THEN data[(n + 1) \div 2] \div 16
                     ELSE data[n \div 2] % 16]

\* needle in hay, for strings
Contains(hay, needle) ==
    \E s \in 0..(Len(hay) - Len(needle)) :
        SubSeq(hay, s + 1, s + Len(needle)) = needle

(***************************************************************************)
(* Spec: a client calls send_init(frequency, expected, difficulty).  The    *)
(* chain has pending chips; the port may deliver up to noise other answers *)
(* and up to timeouts zero-byte reads: none for the calls of InitCalls,    *)
(* MaxNoise and MaxTimeouts for the call with the default arguments.  The  *)
(* chain of BigChain chips is run once, with the default arguments and a   *)
(* port that delivers nothing else.                                        *)
(* The port is open or not when the call starts, and may be closed at any  *)
(* moment of the call.                                                     *)
(***************************************************************************)
Frequencies == {0, 200, 400, 449}

ExpectedCounts == {1, 2}

Difficulties == {0, 16, 2097151}

\* the arguments send_init_bm1370 passes by default (bitaxerawpy.py:46)
DefaultCall == [op |-> "send_init", frequency |-> 200, expected |-> 1,
                difficulty |-> 2097151]

\* every frequency with the other arguments at their defaults, and every
\* expected count and difficulty with the default frequency
InitCalls ==
    [op : {"send_init"}, frequency : Frequencies,
     expected : {DefaultCall.expected}, difficulty : {DefaultCall.difficulty}]
    \cup [op : {"send_init"}, frequency : {DefaultCall.frequency},
          expected : ExpectedCounts, difficulty : Difficulties]

Init ==
    /\ \/ /\ call \in InitCalls
          /\ pending \in 0..MaxChain
          /\ noise = 0
          /\ timeouts = 0
       \/ /\ call = DefaultCall
          /\ pending \in 0..MaxChain
          /\ noise = MaxNoise
          /\ timeouts = MaxTimeouts
       \/ /\ call = DefaultCall
          /\ pending = BigChain
          /\ noise = 0
          /\ timeouts = 0
    /\ pc = "version_mask_prime"
    /\ ser_open \in BOOLEAN
    /\ sent = <<>>
    /\ last_rx = RxNone
    /\ rx_log = <<>>
    /\ chip_counter = 0 /\ i = 0 /\ k = 0
    /\ result = NoResult
    /\ error = ""

\* i' and k' after a write: the loop goes on unless the write raised
Advance(next_i, next_k) ==
    /\ i' = IF pc' = "raised" THEN i ELSE next_i
    /\ k' = IF pc' = "raised" THEN k ELSE next_k

\* bm1370.py:126-127
VersionMaskPrime ==
    /\ pc = "version_mask_prime"
    /\ serial_tx_func(set_version_mask(65535, 65535),
                      IF i + 1 < 3 THEN "version_mask_prime" ELSE "chain_reset")
    /\ Advance(i + 1, k)
    /\ UNCHANGED <<call, ser_open, pending, noise, timeouts, last_rx, rx_log,
                   chip_counter, result>>

\* bm1370.py:129
ChainReset ==
    /\ pc = "chain_reset"
    /\ serial_tx_func(send_simple(<<85, 170, 82, 5, 0, 0, 10>>), "count_send")
    /\ UNCHANGED <<call, ser_open, pending, noise, timeouts, last_rx, rx_log,
                   chip_counter, i, k, result>>

\* count_asic_chips up to the loop (bm1370.py:113-114)
CountSendRead ==
    /\ pc = "count_send"
    /\ serial_tx_func(send(TYPE_CMD + GROUP_ALL + CMD_READ, <<0, 0>>),
                      "count_read")
    /\ chip_counter' = 0
    /\ UNCHANGED <<call, ser_open, pending, noise, timeouts, last_rx, rx_log,
                   i, k, result>>

\* variant of count_loop_body: every answer that is not None is counted
count_loop_body_counts_all(data, counter) ==
    IF data.none THEN [pc |-> "count_inactive", chip_counter |-> counter]
    ELSE [pc |-> "count_read", chip_counter |-> counter + 1]

\* what the loop body does with the value read (bm1370.py:117-121)
count_loop_body(data, counter) ==
    IF data.none THEN [pc |-> "count_inactive", chip_counter |-> counter]
    ELSE IF ~Contains(hexlify(data.bytes), chip_id_response)
    THEN [pc |-> "count_read", chip_counter |-> counter]
    ELSE [pc |-> "count_read", chip_counter |-> counter + 1]

\* one iteration of the loop of count_asic_chips (bm1370.py:115-121): the
\* chain delivers its answers, other bytes may come in between, and once the
\* chain is silent the read times out with zero bytes or with None
CountRead ==
    /\ pc = "count_read"
    /\ IF ~ser_open
       THEN /\ pc' = "raised"
            /\ error' = "Serial port not open"
            /\ UNCHANGED <<pending, noise, timeouts, last_rx, rx_log, chip_counter>>
       ELSE /\ \E data \in {RxBytes(ChipIdResponse), RxBytes(<<>>), RxNone}
                           \cup {RxBytes(b) : b \in NoiseResponses} :
                /\ \/ /\ data = RxBytes(ChipIdResponse)
                      /\ pending > 0
                      /\ pending' = pending - 1
                      /\ UNCHANGED <<noise, timeouts>>
                   \/ /\ data.bytes \in NoiseResponses
                      /\ noise > 0
                      /\ noise' = noise - 1
                      /\ UNCHANGED <<pending, timeouts>>
                   \/ /\ data = RxBytes(<<>>)
                      /\ pending = 0
                      /\ timeouts > 0
                      /\ timeouts' = timeouts - 1
                      /\ UNCHANGED <<pending, noise>>
                   \/ /\ data = RxNone
                      /\ pending = 0
                      /\ UNCHANGED <<pending, noise, timeouts>>
                /\ last_rx' = data
                /\ rx_log' = Append(rx_log, data)
                /\ pc' = count_loop_body(data, chip_counter).pc
                /\ chip_counter' = count_loop_body(data, chip_counter).chip_counter
            /\ UNCHANGED error
    /\ UNCHANGED <<call, ser_open, sent, i, k, result>>

\* variant of CountInactive: the chain is not set inactive after the loop
CountInactive_skipped ==
    /\ pc = "count_inactive"
    /\ pc' = "enumerated"
    /\ UNCHANGED <<call, ser_open, sent, pending, noise, timeouts, last_rx,
                   rx_log, chip_counter, i, k, result, error>>

\* count_asic_chips after the loop (bm1370.py:122-123)
CountInactive ==
    /\ pc = "count_inactive"
    /\ serial_tx_func(send_chain_inactive, "enumerated")
    /\ UNCHANGED <<call, ser_open, pending, noise, timeouts, last_rx, rx_log,
                   chip_counter, i, k, result>>

\* variant of Enumerated: the count is not tested
Enumerated_unchecked ==
    /\ pc = "enumerated"
    /\ pc' = "version_mask_final"
    /\ UNCHANGED <<call, ser_open, sent, pending, noise, timeouts, last_rx, rx_log,
                   chip_counter, i, k, result, error>>

\* send_init takes the count (bm1370.py:130-132)
Enumerated ==
    /\ pc = "enumerated"
    /\ IF chip_counter = 0
       THEN pc' = "raised" /\ error' = "No ASIC chips found"
       ELSE pc' = "version_mask_final" /\ UNCHANGED error
    /\ UNCHANGED <<call, ser_open, sent, pending, noise, timeouts, last_rx, rx_log,
                   chip_counter, i, k, result>>

\* bm1370.py:134
VersionMaskFinal ==
    /\ pc = "version_mask_final"
    /\ serial_tx_func(set_version_mask(65535, 65535), "global_config")
    /\ Advance(0, k)
    /\ UNCHANGED <<call, ser_open, pending, noise, timeouts, last_rx, rx_log,
                   chip_counter, result>>

\* bm1370.py:135-137
global_config ==
    <<send(TYPE_CMD + GROUP_ALL + CMD_WRITE, <<0, 168, 0, 7, 0, 0>>),
      send(TYPE_CMD + GROUP_ALL + CMD_WRITE, <<0, 24, 240, 0, 193, 0>>),
      send_chain_inactive>>

GlobalConfig ==
    /\ pc = "global_config"
    /\ serial_tx_func(global_config[i + 1],
                      IF i + 1 < Len(global_config) THEN "global_config"
                                                    ELSE "addressing")
    /\ Advance(IF i + 1 < Len(global_config) THEN i + 1 ELSE 0, k)
    /\ UNCHANGED <<call, ser_open, pending, noise, timeouts, last_rx, rx_log,
                   chip_counter, result>>

\* bm1370.py:139
address_interval(counter) == 256 \div counter

\* bm1370.py:140-141
Addressing ==
    /\ pc = "addressing"
    /\ serial_tx_func(set_chip_address(i * address_interval(chip_counter)),
                      IF i + 1 < chip_counter THEN "addressing"
                                              ELSE "global_defaults")
    /\ Advance(IF i + 1 < chip_counter THEN i + 1 ELSE 0, k)
    /\ UNCHANGED <<call, ser_open, pending, noise, timeouts, last_rx, rx_log,
                   chip_counter, result>>

\* bm1370.py:143-144
global_defaults ==
    <<send(TYPE_CMD + GROUP_ALL + CMD_WRITE, <<0, 60, 128, 0, 139, 0>>),
      send(TYPE_CMD + GROUP_ALL + CMD_WRITE, <<0, 60, 128, 0, 128, 12>>)>>

GlobalDefaults ==
    /\ pc = "global_defaults"
    /\ serial_tx_func(global_defaults[i + 1],
                      IF i + 1 < Len(global_defaults) THEN "global_defaults"
                                                      ELSE "difficulty_config")
    /\ Advance(IF i + 1 < Len(global_defaults) THEN i + 1 ELSE 0, k)
    /\ UNCHANGED <<call, ser_open, pending, noise, timeouts, last_rx, rx_log,
                   chip_counter, result>>

\* bm1370.py:147-148
DifficultyConfig ==
    /\ pc = "difficulty_config"
    /\ serial_tx_func(send(TYPE_CMD + GROUP_ALL + CMD_WRITE,
                           get_difficulty_mask(call.difficulty)),
                      "global_ticket")
    /\ UNCHANGED <<call, ser_open, pending, noise, timeouts, last_rx, rx_log,
                   chip_counter, i, k, result>>

\* bm1370.py:150
GlobalTicket ==
    /\ pc = "global_ticket"
    /\ serial_tx_func(send(TYPE_CMD + GROUP_ALL + CMD_WRITE,
                           <<0, 88, 0, 1, 17, 17>>),
                      "per_chip_tuning")
    /\ UNCHANGED <<call, ser_open, pending, noise, timeouts, last_rx, rx_log,
                   chip_counter, i, k, result>>

\* variant of per_chip_tuning: the writes go to the first chip
per_chip_tuning_first_chip(addr) ==
    <<send(TYPE_CMD + GROUP_SINGLE + CMD_WRITE, <<0, 168, 0, 7, 1, 240>>),
      send(TYPE_CMD + GROUP_SINGLE + CMD_WRITE, <<0, 24, 240, 0, 193, 0>>),
      send(TYPE_CMD + GROUP_SINGLE + CMD_WRITE, <<0, 60, 128, 0, 139, 0>>),
      send(TYPE_CMD + GROUP_SINGLE + CMD_WRITE, <<0, 60, 128, 0, 128, 12>>),
      send(TYPE_CMD + GROUP_SINGLE + CMD_WRITE, <<0, 60, 128, 0, 130, 170>>)>>

\* the five writes one chip receives (bm1370.py:154-158)
per_chip_tuning(addr) ==
    <<send(TYPE_CMD + GROUP_SINGLE + CMD_WRITE, <<addr, 168, 0, 7, 1, 240>>),
      send(TYPE_CMD + GROUP_SINGLE + CMD_WRITE, <<addr, 24, 240, 0, 193, 0>>),
      send(TYPE_CMD + GROUP_SINGLE + CMD_WRITE, <<addr, 60, 128, 0, 139, 0>>),
      send(TYPE_CMD + GROUP_SINGLE + CMD_WRITE, <<addr, 60, 128, 0, 128, 12>>),
      send(TYPE_CMD + GROUP_SINGLE + CMD_WRITE, <<addr, 60, 128, 0, 130, 170>>)>>

\* bm1370.py:152-158
PerChipTuning ==
    /\ pc = "per_chip_tuning"
    /\ LET addr == i * address_interval(chip_counter)
           last_write == k + 1 = Len(per_chip_tuning(addr))
           last_chip == i + 1 = chip_counter
       IN  /\ serial_tx_func(per_chip_tuning(addr)[k + 1],
                             IF last_write /\ last_chip THEN "global_misc"
                                                        ELSE "per_chip_tuning")
           /\ Advance(IF last_write /\ ~last_chip THEN i + 1
                      ELSE IF last_write THEN 0 ELSE i,
                      IF last_write THEN 0 ELSE k + 1)
    /\ UNCHANGED <<call, ser_open, pending, noise, timeouts, last_rx, rx_log,
                   chip_counter, result>>

\* bm1370.py:160-163
global_misc ==
    <<send(TYPE_CMD + GROUP_ALL + CMD_WRITE, <<0, 185, 0, 0, 68, 128>>),
      send(TYPE_CMD + GROUP_ALL + CMD_WRITE, <<0, 84, 0, 0, 0, 2>>),
      send(TYPE_CMD + GROUP_ALL + CMD_WRITE, <<0, 185, 0, 0, 68, 128>>),
      send(TYPE_CMD + GROUP_ALL + CMD_WRITE, <<0, 60, 128, 0, 141, 238>>)>>

GlobalMisc ==
    /\ pc = "global_misc"
    /\ serial_tx_func(global_misc[i + 1],
                      IF i + 1 < Len(global_misc) THEN "global_misc"
                                                  ELSE "frequency_config")
    /\ Advance(IF i + 1 < Len(global_misc) THEN i + 1 ELSE 0, k)
    /\ UNCHANGED <<call, ser_open, pending, noise, timeouts, last_rx, rx_log,
                   chip_counter, result>>

\* the effect of a call of send_hash_frequency that returns to next
hash_frequency_step(target_freq, next) ==
    IF send_hash_frequency(target_freq).found
    THEN serial_tx_func(send_hash_frequency(target_freq).tx, next)
    ELSE pc' = next /\ UNCHANGED <<sent, error>>

\* bm1370.py:165
FrequencyConfig ==
    /\ pc = "frequency_config"
    /\ hash_frequency_step(call.frequency, "final_commit")
    /\ UNCHANGED <<call, ser_open, pending, noise, timeouts, last_rx, rx_log,
                   chip_counter, i, k, result>>

\* bm1370.py:167-168
FinalCommit ==
    /\ pc = "final_commit"
    /\ serial_tx_func(send(TYPE_CMD + GROUP_ALL + CMD_WRITE,
                           <<0, 16, 0, 0, 30, 181>>),
                      "done")
    /\ result' = IF pc' = "done" THEN chip_counter ELSE result
    /\ UNCHANGED <<call, ser_open, pending, noise, timeouts, last_rx, rx_log,
                   chip_counter, i, k>>

\* SerialInterface.close (bitaxerawpy.py:16-19): whoever holds ctrl_serial
\* closes it while the call is under way; from then on _ser is None
Close ==
    /\ pc \notin {"done", "raised"}
    /\ ser_open
    /\ ser_open' = FALSE
    /\ UNCHANGED <<call, pc, sent, pending, noise, timeouts, last_rx, rx_log,
                   chip_counter, i, k, result, error>>

Next ==
    \/ VersionMaskPrime
    \/ ChainReset
    \/ CountSendRead
    \/ CountRead
    \/ CountInactive
    \/ Enumerated
    \/ VersionMaskFinal
    \/ GlobalConfig
    \/ Addressing
    \/ GlobalDefaults
    \/ DifficultyConfig
    \/ GlobalTicket
    \/ PerChipTuning
    \/ GlobalMisc
    \/ FrequencyConfig
    \/ FinalCommit
    \/ Close

Spec == Init /\ [][Next]_vars

(***************************************************************************)
(* send_init and count_asic_chips as functions of their arguments and of   *)
(* reads, the values serial_rx_func returns one after the other, on a port *)
(* that stays open: what is written, how many values are read, what is     *)
(* returned or raised.                                                     *)
(***************************************************************************)
\* the buffers of a sequence of sends
Buffers(txs) == [n \in 1..Len(txs) |-> txs[n].buf]

\* the loop of count_asic_chips from the n-th read on (bm1370.py:115-121);
\* ended is FALSE when reads is used up before the loop has ended
RECURSIVE count_loop(_, _, _)
count_loop(reads, n, counter) ==
    IF n > Len(reads)
    THEN [chip_counter |-> counter, reads |-> n - 1, ended |-> FALSE]
    ELSE LET body == count_loop_body(reads[n], counter)
         IN  IF body.pc = "count_inactive"
             THEN [chip_counter |-> body.chip_counter, reads |-> n,
                   ended |-> TRUE]
             ELSE count_loop(reads, n + 1, body.chip_counter)

\* variant of count_asic_chips: the loop ends once expected_count chips have
\* answered
count_asic_chips_stops_at_expected(expected_count, reads) ==
    LET full == count_loop(reads, 1, 0)
        seen(n) == count_loop(SubSeq(reads, 1, n), 1, 0).chip_counter
        stop == CHOOSE n \in 0..full.reads :
                    /\ seen(n) >= expected_count
                    /\ \A m \in 0..(n - 1) : seen(m) < expected_count
    IN  IF full.chip_counter < expected_count THEN full
        ELSE [chip_counter |-> seen(stop), reads |-> stop, ended |-> TRUE]

\* BM1370.count_asic_chips (bm1370.py:112-123); expected_count is not read
count_asic_chips(expected_count, reads) == count_loop(reads, 1, 0)

\* the frames of send_init after the count (bm1370.py:134-168)
configuration_frames(frequency, difficulty, counter) ==
    LET interval == address_interval(counter)
        hash_frequency == send_hash_frequency(frequency)
    IN  <<set_version_mask(65535, 65535).buf>>
        \o Buffers(global_config)
        \o [n \in 1..counter |-> set_chip_address((n - 1) * interval).buf]
        \o Buffers(global_defaults)
        \o <<send(TYPE_CMD + GROUP_ALL + CMD_WRITE,
                  get_difficulty_mask(difficulty)).buf,
             send(TYPE_CMD + GROUP_ALL + CMD_WRITE, <<0, 88, 0, 1, 17, 17>>).buf>>
        \o [m \in 1..(5 * counter) |->
               per_chip_tuning(((m - 1) \div 5) * interval)[((m - 1) % 5) + 1].buf]
        \o Buffers(global_misc)
        \o (IF hash_frequency.found THEN <<hash_frequency.tx.buf>> ELSE <<>>)
        \o <<send(TYPE_CMD + GROUP_ALL + CMD_WRITE, <<0, 16, 0, 0, 30, 181>>).buf>>

\* BM1370.send_init (bm1370.py:125-168)
send_init(frequency, expected, difficulty, reads) ==
    LET mask == set_version_mask(65535, 65535).buf
        count == count_asic_chips(expected, reads)
        enumeration ==
            <<mask, mask, mask, send_simple(<<85, 170, 82, 5, 0, 0, 10>>).buf,
              send(TYPE_CMD + GROUP_ALL + CMD_READ, <<0, 0>>).buf,
              send_chain_inactive.buf>>
    IN  IF count.chip_counter = 0
        THEN [sent |-> enumeration, reads |-> count.reads,
              result |-> NoResult, error |-> "No ASIC chips found"]
        ELSE [sent |-> enumeration
                       \o configuration_frames(frequency, difficulty,
                                               count.chip_counter),
              reads |-> count.reads,
              result |-> count.chip_counter, error |-> ""]

(***************************************************************************)
(* SpecSend: a client calls send(header, data) once on an open port.       *)
(***************************************************************************)
PayloadBytes == {0, 165, 255}

ShortPayloads == UNION {[1..n -> PayloadBytes] : n \in 0..MaxShortLen}

\* payloads around the largest length the one-byte length field can carry
LongPayloads == {[n \in 1..len |-> (n * 7) % 256] : len \in (255 - 4)..(255 - 2)}

InitSend ==
    /\ call \in [op : {"send"}, header : 0..255,
                 data : ShortPayloads \cup LongPayloads]
    /\ pc = "send"
    /\ ser_open = TRUE
    /\ sent = <<>>
    /\ pending = 0 /\ noise = 0 /\ timeouts = 0 /\ last_rx = RxNone
    /\ rx_log = <<>>
    /\ chip_counter = 0 /\ i = 0 /\ k = 0
    /\ result = NoResult
    /\ error = ""

SendCall ==
    /\ pc = "send"
    /\ serial_tx_func(send(call.header, call.data), "done")
    /\ UNCHANGED <<call, ser_open, pending, noise, timeouts, last_rx, rx_log,
                   chip_counter, i, k, result>>

NextSend == SendCall

SpecSend == InitSend /\ [][NextSend]_vars

(***************************************************************************)
(* SpecFreq: a client calls send_hash_frequency(target_freq) once on an    *)
(* open port.  The target is the float target_freq * 10^exp10 MHz: the     *)
(* whole numbers 0..MaxFreq, and 1e308.                                     *)
(***************************************************************************)
FreqCalls ==
    [op : {"send_hash_frequency"}, target_freq : 0..MaxFreq, exp10 : {0}]
    \cup {[op |-> "send_hash_frequency", target_freq |-> 1, exp10 |-> 308]}

\* postdiv1 * postdiv2 * target_freq * refdiv / 25.0 is inf for the first
\* combination met (7 * 7 * 1e308 exceeds the largest double, about 1.8e308)
\* and round(inf) raises OverflowError (bm1370.py:87)
float_overflow(c) == c.exp10 = 308 /\ c.target_freq >= 1

InitFreq ==
    /\ call \in FreqCalls
    /\ pc = "send_hash_frequency"
    /\ ser_open = TRUE
    /\ sent = <<>>
    /\ pending = 0 /\ noise = 0 /\ timeouts = 0 /\ last_rx = RxNone
    /\ rx_log = <<>>
    /\ chip_counter = 0 /\ i = 0 /\ k = 0
    /\ result = NoResult
    /\ error = ""

HashFrequencyCall ==
    /\ pc = "send_hash_frequency"
    /\ IF float_overflow(call)
       THEN pc' = "raised" /\ error' = "OverflowError" /\ UNCHANGED sent
       ELSE hash_frequency_step(call.target_freq, "done")
    /\ UNCHANGED <<call, ser_open, pending, noise, timeouts, last_rx, rx_log,
                   chip_counter, i, k, result>>

NextFreq == HashFrequencyCall

SpecFreq == InitFreq /\ [][NextFreq]_vars

(***************************************************************************)
(* SpecDiff: a client calls get_difficulty_mask(difficulty) once.  The     *)
(* difficulties are the integers -3..MaxDifficulty and some whose mask     *)
(* fills two, three and four bytes.                                        *)
(***************************************************************************)
LargeDifficulties == {65535, 65536, 2097151, 16777216, 1073741823}

DiffCalls ==
    [op : {"get_difficulty_mask"},
     difficulty : ((-3)..MaxDifficulty) \cup LargeDifficulties]

InitDiff ==
    /\ call \in DiffCalls
    /\ pc = "get_difficulty_mask"
    /\ ser_open = TRUE
    /\ sent = <<>>
    /\ pending = 0 /\ noise = 0 /\ timeouts = 0 /\ last_rx = RxNone
    /\ rx_log = <<>>
    /\ chip_counter = 0 /\ i = 0 /\ k = 0
    /\ result = NoResult
    /\ error = ""

\* the call returns the list built (bm1370.py:177)
DifficultyMaskCall ==
    /\ pc = "get_difficulty_mask"
    /\ result' = get_difficulty_mask(call.difficulty)
    /\ pc' = "done"
    /\ UNCHANGED <<call, ser_open, sent, pending, noise, timeouts, last_rx,
                   rx_log, chip_counter, i, k, error>>

NextDiff == DifficultyMaskCall

SpecDiff == InitDiff /\ [][NextDiff]_vars

(***************************************************************************)
(* Properties of send, checked under SpecSend.                             *)
(***************************************************************************)
SendReturned == call.op = "send" /\ pc = "done"

IsJob(header) == Bit(header, 5) = 1

\* C6: the frame built by send is payload.len + 6 bytes long for a Job
\* header (bit 0x20 set) and payload.len + 5 otherwise, starts with the sync
\* pair 0x55 0xAA and the header, and its length byte is payload.len + 4 for a
\* Job frame and payload.len + 3 for a Command frame.
C6_FrameShape ==
    SendReturned =>
        /\ Len(sent) = 1
        /\ Len(sent[1]) = Len(call.data) + (IF IsJob(call.header) THEN 6 ELSE 5)
        /\ sent[1][1] = 85
        /\ sent[1][2] = 170
        /\ sent[1][3] = call.header
        /\ sent[1][4] = Len(call.data) + (IF IsJob(call.header) THEN 4 ELSE 3)

\* a Job frame with the longest payload its length byte can carry
C6_Witness ==
    /\ SendReturned
    /\ IsJob(call.header)
    /\ Len(call.data) = 251
    /\ sent[1][4] = 255

\* C7: the checksum of a frame is computed over header, length and payload
\* only, and fills the end of the frame: one crc5 byte for a Command frame,
\* the two crc16 bytes, high byte first, for a Job frame.
C7_ChecksumRange ==
    SendReturned =>
        LET frame == sent[1]
            last == Len(frame)
            payload_end == 4 + Len(call.data)
            covered == <<frame[3], frame[4]>> \o call.data
        IN  /\ SubSeq(frame, 5, payload_end) = call.data
            /\ IF IsJob(call.header)
               THEN /\ last = payload_end + 2
                    /\ frame[last - 1] * 256 + frame[last] = crc16_false(covered)
               ELSE /\ last = payload_end + 1
                    /\ frame[last] = crc5(covered)

\* a Job frame whose two checksum bytes differ, and a payload that is not
\* empty
C7_Witness ==
    /\ SendReturned
    /\ IsJob(call.header)
    /\ Len(call.data) = 2
    /\ sent[1][7] # sent[1][8]

\* C8: send never fails: whatever the header byte and the payload, a frame is
\* built and handed to the port.
C8_FramingNeverFails ==
    (call.op = "send" /\ pc # "send") =>
        /\ pc = "done"
        /\ error = ""
        /\ Len(sent) = 1

(***************************************************************************)
(* Properties of send_hash_frequency, checked under SpecFreq.              *)
(***************************************************************************)
HashFrequencyReturned == call.op = "send_hash_frequency" /\ pc = "done"

\* the divider set a frequency frame carries in its payload
\* <<0x00, 0x08, vco, fb, ref, post>>
FrameDividers(frame) ==
    [fb_divider |-> frame[8],
     ref_divider |-> frame[9],
     post_divider1 |-> (frame[10] \div 16) + 1,
     post_divider2 |-> (frame[10] % 16) + 1]

\* |target - 25 * fb / (ref * post1 * post2)| < 1, in whole numbers
DeviatesLessThanOne(target, d) ==
    LET den == d.ref_divider * d.post_divider1 * d.post_divider2
    IN  Abs(target * den - 25 * d.fb_divider) < den

\* C9: a frequency frame that send_hash_frequency transmits encodes
\* feedback_divider in 0xA0..0xEF, reference_divider in {1, 2}, post-dividers
\* in 1..7 with post_divider1 >= post_divider2, and an achieved frequency less
\* than 1 MHz away from the target; for 400 MHz a frame is transmitted.
C9_DividersValid ==
    HashFrequencyReturned =>
        /\ Len(sent) <= 1
        /\ call.target_freq = 400 => Len(sent) = 1
        /\ Len(sent) = 1 =>
              LET d == FrameDividers(sent[1])
              IN  /\ d.fb_divider \in 160..239
                  /\ d.ref_divider \in {1, 2}
                  /\ d.post_divider1 \in 1..7
                  /\ d.post_divider2 \in 1..7
                  /\ d.post_divider1 >= d.post_divider2
                  /\ DeviatesLessThanOne(call.target_freq, d)

\* the frame for 400 MHz: 25 * 224 / (2 * 7 * 1)
C9_Witness ==
    /\ HashFrequencyReturned
    /\ call.target_freq = 400
    /\ Len(sent) = 1
    /\ FrameDividers(sent[1]) = [fb_divider |-> 224, ref_divider |-> 2,
                                 post_divider1 |-> 7, post_divider2 |-> 1]

\* the divider combinations of the search, and their place in its order
Combos ==
    {c \in [ref_divider : {1, 2}, post_divider1 : 1..7, post_divider2 : 1..7] :
        c.post_divider1 >= c.post_divider2}

ComboFb(target, c) ==
    round(c.post_divider1 * c.post_divider2 * target * c.ref_divider, 25)

InRange(target, c) == ComboFb(target, c) \in 160..239

ComboDen(c) == c.ref_divider * c.post_divider1 * c.post_divider2

ComboNum(target, c) == Abs(target * ComboDen(c) - 25 * ComboFb(target, c))

\* deviation of c1 <= deviation of c2
NoWorse(target, c1, c2) ==
    ComboNum(target, c1) * ComboDen(c2) <= ComboNum(target, c2) * ComboDen(c1)

Candidates(target) == {c \in Combos : InRange(target, c)}

Minimal(target) ==
    {c \in Candidates(target) :
        \A c2 \in Candidates(target) : NoWorse(target, c, c2)}

\* met earlier in the order reference_divider 2 then 1, post_divider1 7 down
\* to 1, post_divider2 7 down to 1
Place(c) ==
    (2 - c.ref_divider) * 49 + (7 - c.post_divider1) * 7 + (7 - c.post_divider2)

FirstMinimal(target) ==
    CHOOSE c \in Minimal(target) :
        \A c2 \in Minimal(target) : Place(c) <= Place(c2)

SelectedIsFirstMinimal ==
    /\ Len(sent) = 1
    /\ LET d == FrameDividers(sent[1])
           c == FirstMinimal(call.target_freq)
       IN  /\ d.ref_divider = c.ref_divider
           /\ d.post_divider1 = c.post_divider1
           /\ d.post_divider2 = c.post_divider2
           /\ d.fb_divider = ComboFb(call.target_freq, c)

\* C10 as stated: whenever some combination has its rounded feedback_divider
\* in 0xA0..0xEF, the solver selects the first met of those with the least
\* deviation.
C10_SelectsFirstMinimal ==
    (HashFrequencyReturned /\ Candidates(call.target_freq) # {}) =>
        SelectedIsFirstMinimal

\* C10 amended: whenever some combination with its rounded feedback_divider
\* in 0xA0..0xEF deviates from the target by less than 1 MHz, the solver
\* selects the first met of the combinations with the least deviation;
\* otherwise it selects none and no frame is transmitted.
C10_SelectsFirstMinimalUnderCap ==
    HashFrequencyReturned =>
        IF \E c \in Candidates(call.target_freq) :
               ComboNum(call.target_freq, c) < ComboDen(c)
        THEN SelectedIsFirstMinimal
        ELSE sent = <<>>

\* 400 MHz is met exactly by several combinations; the first met is kept
C10_Witness ==
    /\ HashFrequencyReturned
    /\ call.target_freq = 400
    /\ Cardinality(Minimal(400)) > 1
    /\ SelectedIsFirstMinimal

\* no combination of the search is accepted for the target of the call: none
\* has its feedback_divider in 0xA0..0xEF and a deviation under 1 MHz (for
\* 1e308 MHz every feedback_divider is far above 0xEF)
NoCombinationAccepted ==
    call.exp10 = 0 =>
        ~\E c \in Candidates(call.target_freq) :
              ComboNum(call.target_freq, c) < ComboDen(c)

\* C11: for a target frequency for which no divider combination is accepted,
\* send_hash_frequency returns without raising and writes no frame.
C11_SkipsFrequencyWrite ==
    (call.op = "send_hash_frequency" /\ pc # "send_hash_frequency"
                                     /\ NoCombinationAccepted) =>
        /\ pc = "done"
        /\ error = ""
        /\ sent = <<>>

\* C19: the payload of the frequency frame written is 0x00, 0x08, then 0x50
\* when feedback_divider * 25 / reference_divider >= 2400 and 0x40 otherwise,
\* then feedback_divider, reference_divider and
\* ((post_divider1 - 1) << 4) + (post_divider2 - 1), for the divider set the
\* search selects.
C19_FrequencyPayload ==
    (HashFrequencyReturned /\ sent # <<>>) =>
        LET c == FirstMinimal(call.target_freq)
            feedback_divider == ComboFb(call.target_freq, c)
        IN  /\ Len(sent) = 1
            /\ Len(sent[1]) = 11
            /\ SubSeq(sent[1], 5, 10) =
                  <<0, 8,
                    IF feedback_divider * 25 >= 2400 * c.ref_divider
                    THEN 80 ELSE 64,
                    feedback_divider,
                    c.ref_divider,
                    (c.post_divider1 - 1) * 16 + (c.post_divider2 - 1)>>

\* 41 MHz: 25 * 161 / (2 * 7 * 7), below the high range, byte 2 stays 0x40
C19_Witness ==
    /\ HashFrequencyReturned
    /\ call.target_freq = 41
    /\ Len(sent) = 1
    /\ SubSeq(sent[1], 5, 10) = <<0, 8, 64, 161, 2, 102>>

(***************************************************************************)
(* Properties of get_difficulty_mask, checked under SpecDiff.              *)
(***************************************************************************)
DifficultyMaskReturned == call.op = "get_difficulty_mask" /\ pc = "done"

\* the power of two p with p <= n < 2 * p, for n >= 1
LargestPowerOfTwoUpTo(n) ==
    CHOOSE p \in {Pow2(e) : e \in 0..29} : p <= n /\ n \div p = 1

\* out is the byte whose bit b is bit 7 - b of the byte in
IsReversal(out, in) ==
    /\ IsByte(out)
    /\ \A b \in 0..7 : Bit(out, b) = Bit(in, 7 - b)

\* C12: for a difficulty >= 1, get_difficulty_mask returns 6 bytes: 0x00,
\* 0x14, then the bit-reversals of bytes 3, 2, 1, 0 (byte 0 the least
\* significant) of mask = (largest power of two <= difficulty) - 1; for the
\* difficulty 16 these are 0x00, 0x14, 0x00, 0x00, 0x00, 0xF0.
C12_DifficultyMask ==
    (DifficultyMaskReturned /\ call.difficulty >= 1) =>
        LET mask == LargestPowerOfTwoUpTo(call.difficulty) - 1
            MaskByte(n) == (mask \div Pow2(8 * n)) % 256
        IN  /\ Len(result) = 6
            /\ result[1] = 0
            /\ result[2] = 20
            /\ \A n \in 0..3 : IsReversal(result[6 - n], MaskByte(n))
            /\ call.difficulty = 16 => result = <<0, 20, 0, 0, 0, 240>>

\* the difficulty 16 of the example, and its payload
C12_Witness ==
    /\ DifficultyMaskReturned
    /\ call.difficulty = 16
    /\ result = <<0, 20, 0, 0, 0, 240>>

\* C13: for a difficulty <= 0, get_difficulty_mask reports an error and
\* returns no payload.
C13_NonPositiveIsError ==
    (call.op = "get_difficulty_mask" /\ pc # "get_difficulty_mask"
                                     /\ call.difficulty <= 0) =>
        /\ pc = "raised"
        /\ error # ""
        /\ result = NoResult

(***************************************************************************)
(* Properties of send_init, checked under Spec.                            *)
(***************************************************************************)
\* the frames of the sequence, told apart by header and register byte
IsFrame(frame, kind) ==
    CASE kind = "version_mask" -> frame[3] = 81 /\ frame[6] = 164
      [] kind = "reset" -> frame = <<85, 170, 82, 5, 0, 0, 10>>
      [] kind = "read" -> frame[3] = 82 /\ Len(frame) = 7
      [] kind = "set_inactive" -> frame[3] = 83 /\ Len(frame) = 7
      [] kind = "set_address" -> frame[3] = 64 /\ Len(frame) = 7
      [] kind = "global_config" -> frame[3] = 81 /\ frame[6] \in {168, 24}
      [] kind = "global_default" -> frame[3] = 81 /\ frame[6] = 60
      [] kind = "difficulty" -> frame[3] = 81 /\ frame[6] = 20
      [] kind = "ticket" -> frame[3] = 81 /\ frame[6] = 88
      [] kind = "single_write" -> frame[3] = 65 /\ Len(frame) = 11
      [] kind = "misc" -> frame[3] = 81 /\ frame[6] \in {185, 84, 60}
      [] kind = "frequency" -> frame[3] = 81 /\ frame[6] = 8
      [] kind = "final_commit" -> frame[3] = 81 /\ frame[6] = 16

Repeat(kind, n) == [m \in 1..n |-> kind]

\* the frames before the enumerator returns
EnumerationKinds ==
    Repeat("version_mask", 3) \o <<"reset", "read", "set_inactive">>

\* the whole sequence for a chain of count chips
InitKinds(count) ==
    EnumerationKinds
    \o <<"version_mask", "global_config", "global_config", "set_inactive">>
    \o Repeat("set_address", count)
    \o <<"global_default", "global_default", "difficulty", "ticket">>
    \o Repeat("single_write", 5 * count)
    \o <<"misc", "misc", "misc", "misc", "frequency", "final_commit">>

SentIs(kinds) ==
    /\ Len(sent) = Len(kinds)
    /\ \A n \in 1..Len(kinds) : IsFrame(sent[n], kinds[n])

\* C1: when send_init returns, the frames written are, in this order, 3
\* version masks, the reset frame, the broadcast read and set-inactive of the
\* enumeration, 1 version mask, 2 global-config writes and set-inactive, one
\* set-address per chip, 2 global-default writes, the difficulty mask, the
\* ticket write, 5 single-target writes per chip, 4 misc writes, the
\* frequency configuration and the final commit; the value returned is the
\* chip count.
C1_InitFrameOrder ==
    (call.op = "send_init" /\ pc = "done") =>
        /\ SentIs(InitKinds(chip_counter))
        /\ result = chip_counter

\* C2: the enumeration loop ends as soon as a read returns zero bytes.
C2_StopsOnEmptyRead ==
    [][(pc = "count_read" /\ timeouts' = timeouts - 1
                          /\ last_rx' = RxBytes(<<>>))
       => pc' # "count_read"]_vars

\* the steps of send_init up to the test of the count
BeforeCountTest ==
    {"version_mask_prime", "chain_reset", "count_send", "count_read",
     "count_inactive", "enumerated"}

\* C3: when the enumeration counts no chip, send_init raises and nothing is
\* written beyond the three version masks, the reset frame, the broadcast
\* read and the set-inactive of the enumerator.
C3_ZeroChipsAbort ==
    /\ (chip_counter = 0 /\ pc \notin BeforeCountTest) => pc = "raised"
    /\ error = "No ASIC chips found" =>
          /\ pc = "raised"
          /\ chip_counter = 0
          /\ result = NoResult
          /\ SentIs(EnumerationKinds)

\* no chip answered; another answer and a zero-byte read were ignored
C3_Witness ==
    /\ error = "No ASIC chips found"
    /\ pc = "raised"
    /\ noise < MaxNoise
    /\ Len(sent) = 6

\* C4: when the PLL search finds no divider set for the frequency asked,
\* send_init fails at the frequency configuration: it does not go on to the
\* final commit and returns no chip count.
C4_NoDividersIsFatal ==
    (call.op = "send_init" /\ ~send_hash_frequency(call.frequency).found) =>
        /\ pc \notin {"final_commit", "done"}
        /\ result = NoResult

\* the addresses of the set-address frames written so far, oldest first
AddressesSent ==
    LET frames == SelectSeq(sent, LAMBDA frame : IsFrame(frame, "set_address"))
    IN  [n \in 1..Len(frames) |-> frames[n][5]]

\* C5: once the addressing loop is through, chip n of chip_counter has been
\* sent the address n * floor(256 / chip_counter), every address is in 0..255
\* and no two chips have the same address.
C5_AddressesUnique ==
    (pc = "global_defaults" /\ i = 0) =>
        /\ Len(AddressesSent) = chip_counter
        /\ \A n \in 1..chip_counter :
              /\ AddressesSent[n] = (n - 1) * (256 \div chip_counter)
              /\ AddressesSent[n] \in 0..255
        /\ \A m, n \in 1..chip_counter :
              m # n => AddressesSent[m] # AddressesSent[n]

\* C14: count_asic_chips writes exactly two frames, the broadcast read before
\* the first read of the port and the broadcast set-inactive after the loop
\* and before it returns; no frame is written while the loop reads; and
\* every set-address frame has a set-inactive frame before it.
C14_TwoFramesAroundReads ==
    /\ [](/\ pc = "count_send" => (Len(sent) = 4 /\ rx_log = <<>>)
          /\ (pc = "count_read" \/ rx_log # <<>>) =>
                (Len(sent) >= 5 /\ IsFrame(sent[5], "read"))
          /\ pc \in {"count_read", "count_inactive"} => Len(sent) = 5
          /\ pc = "enumerated" =>
                (Len(sent) = 6 /\ IsFrame(sent[6], "set_inactive"))
          /\ (sent # <<>> /\ IsFrame(sent[Len(sent)], "set_address")) =>
                \E m \in 1..(Len(sent) - 1) : IsFrame(sent[m], "set_inactive"))
    /\ [][rx_log' # rx_log => sent' = sent]_vars

\* the enumeration read three times or more and returned, and a set-address
\* frame has been written since
C14_Witness ==
    /\ Len(rx_log) >= 3
    /\ Len(sent) > 6
    /\ IsFrame(sent[5], "read")
    /\ IsFrame(sent[6], "set_inactive")
    /\ IsFrame(sent[Len(sent)], "set_address")

\* the value read is not None and its hex digits hold the signature
HasSignature(data) ==
    ~data.none /\ Contains(hexlify(data.bytes), chip_id_response)

\* the values read so far that hold the signature
MatchingReads == {n \in 1..Len(rx_log) : HasSignature(rx_log[n])}

\* C15: the count of count_asic_chips is the number of values read that hold
\* the chip signature; a value of one byte or more without the signature
\* leaves the counter as it is and the loop running.
C15_CountsMatchingResponses ==
    /\ [](pc \in {"count_read", "count_inactive", "enumerated"} =>
             chip_counter = Cardinality(MatchingReads))
    /\ [][(/\ rx_log' # rx_log
           /\ ~last_rx'.none
           /\ last_rx'.bytes # <<>>
           /\ ~HasSignature(last_rx'))
          => (chip_counter' = chip_counter /\ pc' = "count_read")]_vars

\* the enumeration returned a count of 2 after it read an answer of 11 bytes
\* without the signature between those of the chips
C15_Witness ==
    /\ pc = "enumerated"
    /\ chip_counter = 2
    /\ Len(rx_log) = 4
    /\ HasSignature(rx_log[1])
    /\ Len(rx_log[2].bytes) = 11 /\ ~HasSignature(rx_log[2])
    /\ HasSignature(rx_log[3])

\* the steps of send_init after the per-chip loop
AfterTuning == {"global_misc", "frequency_config", "final_commit", "done"}

\* the single-target writes written so far
TuningCount ==
    Cardinality({m \in 1..Len(sent) : IsFrame(sent[m], "single_write")})

\* from frame start + 1 on, chip n of the Addressing step (n = 1, 2, ...)
\* has the five frames start + 5 * (n - 1) + 1 .. start + 5 * n: single-target
\* writes to its address, with the payloads of the first chip
TunedInOrder(start, addresses) ==
    \A n \in 1..Len(addresses) : \A j \in 1..5 :
        LET frame == sent[start + 5 * (n - 1) + j]
        IN  /\ IsFrame(frame, "single_write")
            /\ frame[5] = addresses[n]
            /\ SubSeq(frame, 6, 10) = SubSeq(sent[start + j], 6, 10)

InitEndedOnOpenPort ==
    call.op = "send_init" /\ pc \in {"done", "raised"} /\ ser_open

\* C17: the expected count has no influence: when a call of send_init has
\* ended, a call with the same frequency, the same difficulty and the same
\* values read, whatever its expected count, writes the frames this call has
\* written, reads as many values, and returns the same count or raises the
\* same error.
C17_ExpectedCountIgnored ==
    InitEndedOnOpenPort =>
        \A expected \in ExpectedCounts :
            send_init(call.frequency, expected, call.difficulty, rx_log)
                = [sent |-> sent, reads |-> Len(rx_log),
                   result |-> result, error |-> error]

\* a call that expected 1 chip has counted 3 and returned
C17_Witness ==
    /\ InitEndedOnOpenPort
    /\ pc = "done"
    /\ call.expected = 1
    /\ result = 3
    /\ send_init(call.frequency, 2, call.difficulty, rx_log).result = 3

\* the step of send_init that comes next writes to the port or reads from it
AttemptsTransport ==
    /\ call.op = "send_init"
    /\ pc \notin {"enumerated", "done", "raised"}
    /\ pc = "frequency_config" => send_hash_frequency(call.frequency).found

\* C18: a step of send_init that writes or reads while the port is not open
\* raises at once: nothing is written or read by it, no count is returned,
\* and no step follows, so the operation is not tried again and no later
\* frame is written.
C18_NotOpenAborts ==
    /\ [][(AttemptsTransport /\ ~ser_open) =>
             /\ pc' = "raised"
             /\ error' = "Serial port not open"
             /\ sent' = sent
             /\ rx_log' = rx_log
             /\ result' = NoResult]_vars
    /\ [][pc # "raised"]_vars
    /\ [](error = "Serial port not open" => (pc = "raised" /\ ~ser_open))

\* the port was closed after the first answer was read, and the second read
\* raised
C18_Witness ==
    /\ pc = "raised"
    /\ error = "Serial port not open"
    /\ Len(sent) = 5
    /\ Len(rx_log) = 1
    /\ ~rx_log[1].none

\* C20: the port is released on every way out of a call of send_init: it is
\* closed when the call has returned and when it has raised.
C20_PortReleasedOnExit ==
    (call.op = "send_init" /\ pc \in {"done", "raised"}) => ~ser_open

====
